---------------------------- MODULE Spec2Model ----------------------------
(***************************************************************************)
(* Model of the biomarker dashboard: the age bucketing, rule parser,       *)
(* range-band builder, status classifier and range formatter of            *)
(* src/lib/rangeSelection.ts, the range parser of src/lib/biomarkerUtils.ts *)
(* and the CSV row parser of src/lib/parseCSV.ts, the route                *)
(* GET /api/biomarkers, and the appointment booking routes                 *)
(* (POST /api/appointments, PATCH /api/appointments/[id]) over the         *)
(* appointments table of the database migration.                           *)
(*                                                                         *)
(* Numbers.  A JavaScript "number | null" is a record [k, v]: k = "num"    *)
(* carries the value v, k = "null" is null and k = "nan" is NaN.  A value  *)
(* v counts tenths: Num(6) is 0.6, Num(12) is 1.2 and Num(750) is 75.      *)
(* Numbers are written and read with at most one digit after the decimal   *)
(* point.  An age is a plain integer (profiles.age INTEGER).               *)
(*                                                                         *)
(* Text.  A string is a sequence of one-character strings.  The character  *)
(* "GE" stands for the single code unit U+2265 and "LE" for U+2264.  A     *)
(* "string | null" column that is SQL NULL is the sequence NullText.       *)
(***************************************************************************)
EXTENDS Integers, Sequences, FiniteSets, TLC

VARIABLES refRange, bands, value, status, stage,
          appointments, nextId, requests, patchResult,
          age, ageGroup, rule, threshold, rangeString, range,
          referenceRange, get, defRow, biomarker,
          date, slots,
          modal, now, created,
          hook, calls,
          display

bandVars == <<refRange, bands, value, status, stage>>
apptVars == <<appointments, nextId, requests, patchResult>>
ageVars == <<age, ageGroup>>
ruleVars == <<rule, threshold>>
rangeVars == <<rangeString, range>>
csvVars == <<defRow, biomarker>>
libVars == <<age, ageGroup, rule, threshold, rangeString, range,
             referenceRange, get, defRow, biomarker>>
slotVars == <<date, slots>>
modalVars == <<modal, now, created>>
hookVars == <<hook, calls>>
displayVars == <<display>>
uiVars == <<slotVars, modalVars, hookVars, displayVars>>
vars == <<refRange, bands, value, status, stage,
          appointments, nextId, requests, patchResult,
          age, ageGroup, rule, threshold, rangeString, range,
          referenceRange, get, defRow, biomarker,
          date, slots,
          modal, now, created,
          hook, calls,
          display>>

---------------------------------------------------------------------------
(* Bounds *)

\* number of distinct thresholds a reference range can draw its bounds from
NLevels == 3
\* longest band sequence handed directly to the classifier
MaxBands == 2
\* POST /api/appointments requests that can be in flight or answered
NReq == 2
\* rows of the profiles table
NProfiles == 1
\* distinct appointment times a request can name
NTimes == 2
\* oldest age handed to the age bucketing
MaxAge == 70
\* biomarker results of the profile that GET /api/biomarkers reads
MaxResults == 2

---------------------------------------------------------------------------
(* Numbers *)

Null == [k |-> "null", v |-> 0]
NaN == [k |-> "nan", v |-> 0]
Num(n) == [k |-> "num", v |-> n]

IsNull(x) == x.k = "null"
IsNum(x) == x.k = "num"

\* JavaScript a >= b and a <= b on numbers: false as soon as one side is NaN
Geq(a, b) == IsNum(a) /\ IsNum(b) /\ a.v >= b.v
Leq(a, b) == IsNum(a) /\ IsNum(b) /\ a.v <= b.v

\* thresholds are even so that the midpoint of two thresholds is a value
Levels == {2 * i : i \in 1..NLevels}
MaxValue == 2 * NLevels + 2
Values == {Num(n) : n \in 0..MaxValue} \cup {NaN}

---------------------------------------------------------------------------
(* Text *)

NullText == <<"null">>
Digits == {"0", "1", "2", "3", "4", "5", "6", "7", "8", "9"}
DigitVal(c) ==
  CASE c = "0" -> 0 [] c = "1" -> 1 [] c = "2" -> 2 [] c = "3" -> 3
    [] c = "4" -> 4 [] c = "5" -> 5 [] c = "6" -> 6 [] c = "7" -> 7
    [] c = "8" -> 8 [] c = "9" -> 9
DigitChar(d) ==
  CASE d = 0 -> "0" [] d = 1 -> "1" [] d = 2 -> "2" [] d = 3 -> "3"
    [] d = 4 -> "4" [] d = 5 -> "5" [] d = 6 -> "6" [] d = 7 -> "7"
    [] d = 8 -> "8" [] d = 9 -> "9"

\* decimal digits of a natural number
RECURSIVE IntText(_)
IntText(n) == IF n < 10 THEN <<DigitChar(n)>>
              ELSE IntText(n \div 10) \o <<DigitChar(n % 10)>>

\* the text of a number of n tenths, as a column value is written and as a
\* template literal writes it: "75" for 750, "0.6" for 6, "-1.2" for -12
ToText(n) ==
  LET m == IF n < 0 THEN 0 - n ELSE n
      sign == IF n < 0 THEN <<"-">> ELSE <<>>
  IN IF m % 10 = 0 THEN sign \o IntText(m \div 10)
     ELSE sign \o IntText(m \div 10) \o <<".", DigitChar(m % 10)>>

\* String.prototype.trim
RECURSIVE TrimLeft(_)
TrimLeft(s) == IF Len(s) > 0 /\ s[1] = " " THEN TrimLeft(Tail(s)) ELSE s
RECURSIVE TrimRight(_)
TrimRight(s) == IF Len(s) > 0 /\ s[Len(s)] = " "
                THEN TrimRight(SubSeq(s, 1, Len(s) - 1)) ELSE s
Trim(s) == TrimRight(TrimLeft(s))

StartsWith(s, c) == Len(s) > 0 /\ s[1] = c
Substring1(s) == SubSeq(s, 2, Len(s))

\* length of the longest prefix of s made of digits
RECURSIVE DigitPrefixLen(_)
DigitPrefixLen(s) == IF Len(s) > 0 /\ s[1] \in Digits
                     THEN 1 + DigitPrefixLen(Tail(s)) ELSE 0
RECURSIVE DigitsValue(_)
DigitsValue(s) == IF Len(s) = 0 THEN 0
                  ELSE 10 * DigitsValue(SubSeq(s, 1, Len(s) - 1)) + DigitVal(s[Len(s)])

\* parseFloat: skips leading white space, reads an optional sign and the
\* longest numeric prefix (digits, then an optional point and digits),
\* ignores what follows; NaN when the prefix holds no digit.  The result
\* counts tenths: the first digit after the point is kept.
ParseFloat(s) ==
  LET t == TrimLeft(s)
      signed == Len(t) > 0 /\ t[1] \in {"-", "+"}
      u == IF signed THEN Tail(t) ELSE t
      n == DigitPrefixLen(u)
      rest == SubSeq(u, n + 1, Len(u))
      f == IF StartsWith(rest, ".") THEN DigitPrefixLen(Tail(rest)) ELSE 0
      m == 10 * DigitsValue(SubSeq(u, 1, n)) + (IF f = 0 THEN 0 ELSE DigitVal(rest[2]))
  IN IF n = 0 /\ f = 0 THEN NaN
     ELSE IF signed /\ t[1] = "-" THEN Num(0 - m) ELSE Num(m)

---------------------------------------------------------------------------
(* src/lib/rangeSelection.ts *)

\* the thrown Error("Invalid age: ... Must be 18 or older.")
InvalidAge == "Invalid age"

\* the buckets with the first one opening at 17
calculateAgeGroup_From17(a) ==
  IF a >= 17 /\ a <= 39 THEN "18-39"
  ELSE IF a >= 40 /\ a <= 59 THEN "40-59"
  ELSE IF a >= 60 THEN "60+"
  ELSE InvalidAge

calculateAgeGroup(a) ==
  IF a >= 18 /\ a <= 39 THEN "18-39"
  ELSE IF a >= 40 /\ a <= 59 THEN "40-59"
  ELSE IF a >= 60 THEN "60+"
  ELSE InvalidAge

\* the parser without its branch for the operator U+2264
parseOutOfRangeRule_NoLE(text) ==
  IF text = NullText \/ text = <<>> THEN Null
  ELSE LET trimmed == Trim(text)
       IN IF StartsWith(trimmed, "<") THEN ParseFloat(Substring1(trimmed))
          ELSE IF StartsWith(trimmed, ">") THEN ParseFloat(Substring1(trimmed))
          ELSE IF StartsWith(trimmed, "GE") THEN ParseFloat(Substring1(trimmed))
          ELSE Null

parseOutOfRangeRule(text) ==
  IF text = NullText \/ text = <<>> THEN Null
  ELSE LET trimmed == Trim(text)
       IN IF StartsWith(trimmed, "<") THEN ParseFloat(Substring1(trimmed))
          ELSE IF StartsWith(trimmed, ">") THEN ParseFloat(Substring1(trimmed))
          ELSE IF StartsWith(trimmed, "GE") THEN ParseFloat(Substring1(trimmed))
          ELSE IF StartsWith(trimmed, "LE") THEN ParseFloat(Substring1(trimmed))
          ELSE Null

\* a test of the rule text for the empty string only
Truthy_NotEmpty(text) == text # <<>>

\* truthiness of a "string | null" value
Truthy(text) == text # NullText /\ text # <<>>

RangeBand(label, min, max, color, order) ==
  [label |-> label, min |-> min, max |-> max, color |-> color, order |-> order]

\* the builder with the Optimal band pushed before the In range band
convertReferenceRangeToRangeBands_OptimalFirst(ref) ==
  LET hasOptimal == ~IsNull(ref.optimal_low) /\ ~IsNull(ref.optimal_high)
      hasInRange == ~IsNull(ref.inrange_low) /\ ~IsNull(ref.inrange_high)
      low == IF Truthy(ref.outofrange_low_rule)
             THEN <<RangeBand("Out of range", Null,
                              parseOutOfRangeRule(ref.outofrange_low_rule), "red", 1)>>
             ELSE <<>>
      opt == IF hasOptimal
             THEN <<RangeBand("Optimal", ref.optimal_low, ref.optimal_high, "green", 2)>>
             ELSE <<>>
      inr == IF hasInRange
             THEN <<RangeBand("In range", ref.inrange_low, ref.inrange_high, "orange",
                              IF hasOptimal THEN 3 ELSE 2)>>
             ELSE <<>>
      high == IF Truthy(ref.outofrange_high_rule)
              THEN <<RangeBand("Out of range",
                               parseOutOfRangeRule(ref.outofrange_high_rule), Null, "red",
                               IF hasInRange THEN 4 ELSE 3)>>
              ELSE <<>>
  IN low \o opt \o inr \o high

convertReferenceRangeToRangeBands(ref) ==
  LET hasOptimal == ~IsNull(ref.optimal_low) /\ ~IsNull(ref.optimal_high)
      hasInRange == ~IsNull(ref.inrange_low) /\ ~IsNull(ref.inrange_high)
      low == IF Truthy(ref.outofrange_low_rule)
             THEN <<RangeBand("Out of range", Null,
                              parseOutOfRangeRule(ref.outofrange_low_rule), "red", 1)>>
             ELSE <<>>
      inr == IF hasInRange
             THEN <<RangeBand("In range", ref.inrange_low, ref.inrange_high, "orange", 2)>>
             ELSE <<>>
      opt == IF hasOptimal
             THEN <<RangeBand("Optimal", ref.optimal_low, ref.optimal_high, "green",
                              IF hasInRange THEN 3 ELSE 2)>>
             ELSE <<>>
      high == IF Truthy(ref.outofrange_high_rule)
              THEN <<RangeBand("Out of range",
                               parseOutOfRangeRule(ref.outofrange_high_rule), Null, "red",
                               IF hasInRange THEN 4 ELSE 3)>>
              ELSE <<>>
  IN low \o inr \o opt \o high

\* the test written as "not below min and not above max"
inRange_NotOutside(v, band) ==
  /\ (IsNull(band.min) \/ ~(IsNum(v) /\ IsNum(band.min) /\ v.v < band.min.v))
  /\ (IsNull(band.max) \/ ~(IsNum(v) /\ IsNum(band.max) /\ v.v > band.max.v))

\* the test of one band inside the loop of calculateStatusFromBands
inRange(v, band) ==
  /\ (IsNull(band.min) \/ Geq(v, band.min))
  /\ (IsNull(band.max) \/ Leq(v, band.max))

\* the scan with the last covering band deciding instead of the first
RECURSIVE calculateStatusFromBands_LastMatch(_, _)
calculateStatusFromBands_LastMatch(v, bs) ==
  IF Len(bs) = 0 THEN "out-of-range"
  ELSE LET band == bs[Len(bs)]
       IN IF inRange(v, band) /\ band.label = "Optimal" THEN "optimal"
          ELSE IF inRange(v, band) /\ band.label \in {"In range", "Normal"} THEN "in-range"
          ELSE IF inRange(v, band) /\ band.label = "Out of range" THEN "out-of-range"
          ELSE calculateStatusFromBands_LastMatch(v, SubSeq(bs, 1, Len(bs) - 1))

RECURSIVE calculateStatusFromBands(_, _)
calculateStatusFromBands(v, bs) ==
  IF Len(bs) = 0 THEN "out-of-range"
  ELSE LET band == Head(bs)
       IN IF inRange(v, band) /\ band.label = "Optimal" THEN "optimal"
          ELSE IF inRange(v, band) /\ band.label \in {"In range", "Normal"} THEN "in-range"
          ELSE IF inRange(v, band) /\ band.label = "Out of range" THEN "out-of-range"
          ELSE calculateStatusFromBands(v, Tail(bs))

\* the display string of a reference range
NotAvailable == <<"N", "/", "A">>
Dash == <<" ", "-", " ">>
formatReferenceRange(ref) ==
  LET hasOptimal == ~IsNull(ref.optimal_low) /\ ~IsNull(ref.optimal_high)
  IN IF hasOptimal
     THEN ToText(ref.optimal_low.v) \o Dash \o ToText(ref.optimal_high.v)
     ELSE IF ~IsNull(ref.inrange_low) /\ ~IsNull(ref.inrange_high)
     THEN ToText(ref.inrange_low.v) \o Dash \o ToText(ref.inrange_high.v)
     ELSE IF Truthy(ref.outofrange_low_rule) THEN ref.outofrange_low_rule
     ELSE NotAvailable

---------------------------------------------------------------------------
(* src/lib/biomarkerUtils.ts *)

\* String.prototype.includes and split on a one-character separator
Includes(s, c) == \E i \in 1..Len(s) : s[i] = c
RECURSIVE Split(_, _)
Split(s, c) ==
  IF ~Includes(s, c) THEN <<s>>
  ELSE LET i == CHOOSE j \in 1..Len(s) : s[j] = c /\ \A k \in 1..(j - 1) : s[k] # c
       IN <<SubSeq(s, 1, i - 1)>> \o Split(SubSeq(s, i + 1, Len(s)), c)

\* the parser without the U+2265 alternative of its lower-bound branch
parseRange_NoGE(text) ==
  LET trimmed == Trim(text)
      pieces == Split(trimmed, "-")
      parts == [i \in 1..Len(pieces) |-> ParseFloat(Trim(pieces[i]))]
      bound == ParseFloat(Trim(Substring1(trimmed)))
      singleValue == ParseFloat(trimmed)
  IN IF trimmed = <<>> \/ trimmed = <<"-">> THEN [min |-> Null, max |-> Null]
     ELSE IF /\ Includes(trimmed, "-")
             /\ ~StartsWith(trimmed, "<") /\ ~StartsWith(trimmed, ">")
             /\ Len(parts) = 2 /\ parts[1] # NaN /\ parts[2] # NaN
     THEN [min |-> parts[1], max |-> parts[2]]
     ELSE IF StartsWith(trimmed, "<") /\ bound # NaN
     THEN [min |-> Null, max |-> bound]
     ELSE IF StartsWith(trimmed, ">") /\ bound # NaN
     THEN [min |-> bound, max |-> Null]
     ELSE IF singleValue # NaN THEN [min |-> singleValue, max |-> singleValue]
     ELSE [min |-> Null, max |-> Null]

parseRange(text) ==
  LET trimmed == Trim(text)
      pieces == Split(trimmed, "-")
      parts == [i \in 1..Len(pieces) |-> ParseFloat(Trim(pieces[i]))]
      bound == ParseFloat(Trim(Substring1(trimmed)))
      singleValue == ParseFloat(trimmed)
  IN IF trimmed = <<>> \/ trimmed = <<"-">> THEN [min |-> Null, max |-> Null]
     ELSE IF /\ Includes(trimmed, "-")
             /\ ~StartsWith(trimmed, "<") /\ ~StartsWith(trimmed, ">")
             /\ Len(parts) = 2 /\ parts[1] # NaN /\ parts[2] # NaN
     THEN [min |-> parts[1], max |-> parts[2]]
     ELSE IF StartsWith(trimmed, "<") /\ bound # NaN
     THEN [min |-> Null, max |-> bound]
     ELSE IF (StartsWith(trimmed, ">") \/ StartsWith(trimmed, "GE")) /\ bound # NaN
     THEN [min |-> bound, max |-> Null]
     ELSE IF singleValue # NaN THEN [min |-> singleValue, max |-> singleValue]
     ELSE [min |-> Null, max |-> Null]

\* calculateStatus: the first band that holds the value decides; the
\* labels are the three that parseBiomarkerRow pushes
RECURSIVE calculateStatus(_, _)
calculateStatus(v, ranges) ==
  IF Len(ranges) = 0 THEN "out-of-range"
  ELSE LET r == Head(ranges)
           aboveMin == IsNull(r.min) \/ Geq(v, r.min)
           belowMax == IsNull(r.max) \/ Leq(v, r.max)
       IN IF aboveMin /\ belowMax /\ r.label = "Optimal" THEN "optimal"
          ELSE IF aboveMin /\ belowMax /\ r.label = "In range" THEN "in-range"
          ELSE IF aboveMin /\ belowMax /\ r.label = "Out of range" THEN "out-of-range"
          ELSE calculateStatus(v, Tail(ranges))

\* formatReferenceRange of biomarkerUtils.ts: the display string of the
\* first Optimal band, else of the first In range band
formatReferenceRangeOfBands(ranges) ==
  LET optimal == {i \in 1..Len(ranges) : ranges[i].label = "Optimal"}
      inrange == {i \in 1..Len(ranges) : ranges[i].label = "In range"}
      shown == IF optimal # {} THEN optimal ELSE inrange
      d == ranges[CHOOSE i \in shown : \A j \in shown : i <= j]
  IN IF shown = {} THEN <<>>
     ELSE IF ~IsNull(d.min) /\ ~IsNull(d.max) THEN ToText(d.min.v) \o Dash \o ToText(d.max.v)
     ELSE IF ~IsNull(d.min) THEN <<"GE">> \o ToText(d.min.v)
     ELSE IF ~IsNull(d.max) THEN <<"<">> \o ToText(d.max.v)
     ELSE <<>>

---------------------------------------------------------------------------
(* src/lib/parseCSV.ts *)

\* return null
NoBiomarker == [k |-> "null", ranges |-> <<>>, status |-> "", referenceRange |-> <<>>]

\* the band pushed for each range column of the row, if the column holds a
\* range.  The parsed range p is bound once, as const { min, max } is.
OptimalBand(text) ==
  IF ~Truthy(text) THEN <<>>
  ELSE CHOOSE pushed \in
         {IF ~IsNull(p.min) \/ ~IsNull(p.max)
          THEN <<RangeBand("Optimal", p.min, p.max, "green", 2)>>
          ELSE <<>> : p \in {parseRange(text)}} : TRUE

InRangeBand(text) ==
  IF ~Truthy(text) THEN <<>>
  ELSE CHOOSE pushed \in
         {IF ~IsNull(p.min) \/ ~IsNull(p.max)
          THEN <<RangeBand("In range", p.min, p.max, "orange", 3)>>
          ELSE <<>> : p \in {parseRange(text)}} : TRUE

OutOfRangeBand(text) ==
  IF ~Truthy(text) THEN <<>>
  ELSE CHOOSE pushed \in
         {IF ~IsNull(p.min) \/ ~IsNull(p.max)
          THEN <<RangeBand("Out of range", p.min, p.max, "red",
                           IF ~IsNull(p.max) /\ IsNull(p.min) THEN 1 ELSE 4)>>
          ELSE <<>> : p \in {parseRange(text)}} : TRUE

\* the Biomarker built from the bands of the row
BiomarkerOf(ranges, v) ==
  IF Len(ranges) = 0 THEN NoBiomarker
  ELSE [k |-> "biomarker", ranges |-> ranges,
        status |-> calculateStatus(v, ranges),
        referenceRange |-> formatReferenceRangeOfBands(ranges)]

parseBiomarkerRow(r, v) ==
  IF ~Truthy(r.Biomarker_Name) \/ ~Truthy(r.Unit) THEN NoBiomarker
  ELSE CHOOSE built \in
         {BiomarkerOf(ranges, v) :
            ranges \in {OptimalBand(r.Optimal) \o InRangeBand(r.InRange)
                          \o OutOfRangeBand(r.OutOfRange)}} : TRUE

---------------------------------------------------------------------------
(* State of the functions and of the route GET /api/biomarkers before they *)
(* are called                                                              *)

\* the result of a parser that has not run
NotCalled == [k |-> "none", v |-> 0]
NoRange == [min |-> NotCalled, max |-> NotCalled]
NoRow == [optimal_low |-> Null, optimal_high |-> Null,
          inrange_low |-> Null, inrange_high |-> Null,
          outofrange_low_rule |-> <<"n", "o", " ", "r", "o", "w">>,
          outofrange_high_rule |-> NullText]
NoGet == [pc |-> "idle", profile |-> [found |-> FALSE, age |-> 0],
          resultsError |-> FALSE, results |-> <<>>, ageGroup |-> "",
          idx |-> 1, biomarkers |-> <<>>, converted |-> <<>>, code |-> 0]
NoCsvRow == [Biomarker_Name |-> <<>>, Unit |-> <<>>, Optimal |-> NullText, InRange |-> NullText,
             OutOfRange |-> NullText, value |-> Null]
NotParsed == [k |-> "unparsed", ranges |-> <<>>, status |-> "", referenceRange |-> <<>>]

AgeIdle == age = 0 /\ ageGroup = "none"
RuleIdle == rule = NullText /\ threshold = NotCalled
RangeIdle == rangeString = <<>> /\ range = NoRange
FormatIdle == referenceRange = NullText
GetIdle == get = NoGet
CsvIdle == defRow = NoCsvRow /\ biomarker = NotParsed
LibIdle == AgeIdle /\ RuleIdle /\ RangeIdle /\ FormatIdle /\ GetIdle /\ CsvIdle

\* no slot list has been asked for
NoDate == [day |-> 0, minute |-> 0]
SlotIdle == date = NoDate /\ slots = <<>>

\* the booking modal is not mounted
NoModal == [open |-> FALSE, profile |-> FALSE, date |-> <<>>, time |-> <<>>,
            loading |-> FALSE, error |-> "null"]
ModalIdle == modal = NoModal /\ now = 0 /\ created = <<>>

\* no component has mounted the useAppointments hook
NCalls == 2
NoCall == [op |-> "none", pc |-> "idle", id |-> 0, status |-> "",
           appointment_at |-> 0, previousAppointments |-> <<>>]
NoHook == [appointments |-> <<>>, loading |-> FALSE, error |-> "null"]
HookIdle == hook = NoHook /\ calls = [c \in 1..NCalls |-> NoCall]

\* no biomarker has been drawn
NoDisplay == [creatinine |-> FALSE, zone |-> "none", category |-> "none"]
DisplayIdle == display = NoDisplay
UiIdle == SlotIdle /\ ModalIdle /\ HookIdle /\ DisplayIdle

---------------------------------------------------------------------------
(* Inputs of the band pipeline *)

\* a pair of nullable numeric columns
Bounds == {Null} \cup {Num(n) : n \in Levels}

\* rule texts: absent, empty, the "-" placeholder, a bare number, an
\* operator without a number, and thresholds with and without a space
RuleTexts ==
  {NullText, <<>>, <<"-">>, <<"4">>, <<"<", "x">>}
    \cup {<<"<">> \o ToText(n) : n \in Levels}
    \cup {<<">", " ">> \o ToText(n) : n \in Levels}

ReferenceRanges ==
  [optimal_low : Bounds, optimal_high : Bounds,
   inrange_low : Bounds, inrange_high : Bounds,
   outofrange_low_rule : RuleTexts, outofrange_high_rule : RuleTexts]

NoRef == [optimal_low |-> Null, optimal_high |-> Null,
          inrange_low |-> Null, inrange_high |-> Null,
          outofrange_low_rule |-> NullText, outofrange_high_rule |-> NullText]

---------------------------------------------------------------------------
(* The appointments table and the booking routes.  A row carries the      *)
(* columns the routes and the constraints read; the text of notes and the  *)
(* timestamps created_at and updated_at are not modelled.                  *)

\* a field the request body does not carry (undefined, null or "")
Absent == 0
Profiles == 1..NProfiles
\* a well-formed id that no row of profiles carries
UnknownProfile == NProfiles + 1
Times == 1..NTimes
Statuses == {"booked", "cancelled", "completed"}
Sources == {"schedule_page", "biomarker_modal"}

NoRequest == [pc |-> "idle", profile_id |-> Absent, appointment_at |-> Absent,
              source |-> "", code |-> 0, row |-> 0, at |-> ""]
NoPatch == [code |-> 0, id |-> 0]

\* what the seed script leaves in the table: nothing, or a sample
\* appointment of the first profile, booked or completed
SeedTables ==
  {{}} \cup {{[id |-> 1, profile_id |-> 1, appointment_at |-> 1, status |-> st,
              source |-> "schedule_page"]} : st \in {"booked", "completed"}}

ApptIdle ==
  /\ appointments = {}
  /\ nextId = 1
  /\ requests = [r \in 1..NReq |-> NoRequest]
  /\ patchResult = NoPatch

\* CREATE TABLE appointments: the CHECK on source and status, the foreign
\* key on profile_id and UNIQUE(profile_id, appointment_at, status).  The
\* result is the SQLSTATE of the first constraint the row breaks, "" if none.
SameKey(a, b) == /\ a.profile_id = b.profile_id
                 /\ a.appointment_at = b.appointment_at
                 /\ a.status = b.status
\* the table without its UNIQUE constraint
ConstraintError_NoUnique(table, row) ==
  IF row.status \notin Statuses \/ row.source \notin Sources THEN "23514"
  ELSE IF row.profile_id \notin Profiles THEN "23503"
  ELSE ""

ConstraintError(table, row) ==
  IF row.status \notin Statuses \/ row.source \notin Sources THEN "23514"
  ELSE IF \E other \in table : other.id # row.id /\ SameKey(other, row) THEN "23505"
  ELSE IF row.profile_id \notin Profiles THEN "23503"
  ELSE ""

\* the conflict query without its filter on status
existingAppointments_AnyStatus(table, body) ==
  {a \in table : /\ a.profile_id = body.profile_id
                 /\ a.appointment_at = body.appointment_at}

\* the conflict query of POST: booked rows of the profile at that time
existingAppointments(table, body) ==
  {a \in table : /\ a.profile_id = body.profile_id
                 /\ a.appointment_at = body.appointment_at
                 /\ a.status = "booked"}

BodyProfiles == {Absent, UnknownProfile} \cup Profiles
BodyTimes == {Absent} \cup Times
BodySources == {"", "other"} \cup Sources

\* POST: the body arrives and the required fields are validated.  Requests
\* are numbered in the order they arrive.
PostValidate(r) ==
  /\ requests[r].pc = "idle"
  /\ \A q \in 1..(r - 1) : requests[q].pc # "idle"
  /\ \E p \in BodyProfiles, t \in BodyTimes, s \in BodySources :
       LET body == [requests[r] EXCEPT !.profile_id = p, !.appointment_at = t,
                                       !.source = s]
       IN requests' = [requests EXCEPT ![r] =
            IF p = Absent \/ t = Absent \/ s = ""
            THEN [body EXCEPT !.pc = "done", !.code = 400, !.at = "validate"]
            ELSE [body EXCEPT !.pc = "check"]]
  /\ UNCHANGED <<appointments, nextId, patchResult>>
  /\ UNCHANGED bandVars
  /\ UNCHANGED <<libVars, uiVars>>

\* POST: the conflict query runs
PostCheck(r) ==
  /\ requests[r].pc = "check"
  /\ requests' = [requests EXCEPT ![r] =
       IF existingAppointments(appointments, requests[r]) # {}
       THEN [@ EXCEPT !.pc = "done", !.code = 409, !.at = "check"]
       ELSE [@ EXCEPT !.pc = "insert"]]
  /\ UNCHANGED <<appointments, nextId, patchResult>>
  /\ UNCHANGED bandVars
  /\ UNCHANGED <<libVars, uiVars>>

\* POST: the insert runs and the response is sent
PostInsert(r) ==
  /\ requests[r].pc = "insert"
  /\ LET body == requests[r]
         row == [id |-> nextId, profile_id |-> body.profile_id,
                 appointment_at |-> body.appointment_at, status |-> "booked",
                 source |-> body.source]
         error == ConstraintError(appointments, row)
     IN IF error = ""
        THEN /\ appointments' = appointments \cup {row}
             /\ nextId' = nextId + 1
             /\ requests' = [requests EXCEPT ![r] =
                  [@ EXCEPT !.pc = "done", !.code = 201, !.row = row.id, !.at = "insert"]]
        ELSE /\ UNCHANGED <<appointments, nextId>>
             /\ requests' = [requests EXCEPT ![r] =
                  [@ EXCEPT !.pc = "done", !.code = IF error = "23505" THEN 409 ELSE 500,
                            !.at = "insert"]]
  /\ UNCHANGED patchResult
  /\ UNCHANGED bandVars
  /\ UNCHANGED <<libVars, uiVars>>

\* PATCH /api/appointments/[id]: validation, then one update statement
PatchStatuses == Statuses \cup {"other"}
PATCH(id, hasStatus, st, hasNotes) ==
  LET target == {a \in appointments : a.id = id}
      old == CHOOSE a \in target : TRUE
      new == [old EXCEPT !.status = IF hasStatus THEN st ELSE @]
  IN /\ IF ~hasStatus /\ ~hasNotes
        THEN /\ patchResult' = [code |-> 400, id |-> id]
             /\ UNCHANGED appointments
        ELSE IF target = {}
        THEN /\ patchResult' = [code |-> 404, id |-> id]
             /\ UNCHANGED appointments
        ELSE IF ConstraintError(appointments, new) # ""
        THEN /\ patchResult' = [code |-> 500, id |-> id]
             /\ UNCHANGED appointments
        ELSE /\ patchResult' = [code |-> 200, id |-> id]
             /\ appointments' = (appointments \ {old}) \cup {new}
     /\ UNCHANGED <<nextId, requests>>
     /\ UNCHANGED bandVars
     /\ UNCHANGED <<libVars, uiVars>>
  /\ UNCHANGED <<libVars, uiVars>>

Patch ==
  \E id \in 1..nextId, hasStatus \in BOOLEAN, hasNotes \in BOOLEAN :
    \E st \in IF hasStatus THEN PatchStatuses ELSE {""} :
      PATCH(id, hasStatus, st, hasNotes)

BandsIdle ==
  /\ refRange = NoRef
  /\ bands = <<>>
  /\ value = Null
  /\ status = "none"
  /\ stage = "idle"

\* the table as the seed script leaves it
InitSeeded ==
  /\ BandsIdle
  /\ LibIdle
  /\ UiIdle
  /\ appointments \in SeedTables
  /\ nextId = Cardinality(appointments) + 1
  /\ requests = [r \in 1..NReq |-> NoRequest]
  /\ patchResult = NoPatch

\* the table as the migration creates it
InitAppt == BandsIdle /\ ApptIdle /\ LibIdle /\ UiIdle

Post == \E r \in 1..NReq : PostValidate(r) \/ PostCheck(r) \/ PostInsert(r)

\* bookings only
NextPost == Post
SpecPost == InitSeeded /\ [][NextPost]_vars

\* bookings and status updates
NextAppt == Post \/ Patch
SpecAppt == InitAppt /\ [][NextAppt]_vars

---------------------------------------------------------------------------
(* The band pipeline of GET /api/biomarkers: build the bands of a          *)
(* reference range, then classify a measured value against them.           *)

InitBands ==
  /\ ApptIdle
  /\ LibIdle
  /\ UiIdle
  /\ refRange \in ReferenceRanges
  /\ bands = <<>>
  /\ value = Null
  /\ status = "none"
  /\ stage = "start"

BuildBands ==
  /\ stage = "start"
  /\ bands' = convertReferenceRangeToRangeBands(refRange)
  /\ stage' = "built"
  /\ UNCHANGED <<refRange, value, status>>
  /\ UNCHANGED apptVars
  /\ UNCHANGED <<libVars, uiVars>>

Classify ==
  /\ stage = "built"
  /\ \E v \in Values :
       /\ value' = v
       /\ status' = calculateStatusFromBands(v, bands)
  /\ stage' = "classified"
  /\ UNCHANGED <<refRange, bands>>
  /\ UNCHANGED apptVars
  /\ UNCHANGED <<libVars, uiVars>>

NextBands == BuildBands \/ Classify

SpecBands == InitBands /\ [][NextBands]_vars

---------------------------------------------------------------------------
(* The classifier on its own: any band sequence a caller can hand over.    *)

Labels == {"Optimal", "In range", "Out of range"}
ColorOf(l) == CASE l = "Optimal" -> "green" [] l = "In range" -> "orange"
                [] l = "Out of range" -> "red"

\* two thresholds are enough for a value to lie below, on, between and above
\* the bounds of a band
ClassifierBounds == {Null, Num(2), Num(4)}
BandInputs ==
  {RangeBand(l, mn, mx, ColorOf(l), 1) : l \in Labels, mn \in ClassifierBounds,
                                         mx \in ClassifierBounds}
BandSeqs == UNION {[1..n -> BandInputs] : n \in 0..MaxBands}

InitClassify ==
  /\ ApptIdle
  /\ LibIdle
  /\ UiIdle
  /\ refRange = NoRef
  /\ bands \in BandSeqs
  /\ value = Null
  /\ status = "none"
  /\ stage = "built"

NextClassify == Classify

SpecClassify == InitClassify /\ [][NextClassify]_vars

---------------------------------------------------------------------------
(* GET /api/biomarkers.  The tables are read only: the profile, the        *)
(* results of the profile and, for each result, the answer of the lookup   *)
(* of its reference range are fixed when the request starts.  A step is    *)
(* the code that runs after one query returns.                             *)

\* the Fasting Glucose row of the seed script and rows without any group
GlucoseRange ==
  [optimal_low |-> Num(700), optimal_high |-> Num(850),
   inrange_low |-> Num(650), inrange_high |-> Num(990),
   outofrange_low_rule |-> <<"<", " ", "6", "5">>,
   outofrange_high_rule |-> <<">", " ", "9", "9">>]
EmptyRulesRange == [NoRef EXCEPT !.outofrange_low_rule = <<>>, !.outofrange_high_rule = <<>>]
GetRanges == {NoRef, EmptyRulesRange, GlucoseRange}
\* the answer of .single(): an error without data, no data, or the row
Lookups ==
  {[error |-> TRUE, data |-> NoRow], [error |-> FALSE, data |-> NoRow]}
    \cup {[error |-> FALSE, data |-> r] : r \in GetRanges}
\* measured values 92 and 64
GetValues == {Num(920), Num(640)}
ResultRows == [value : GetValues, lookup : Lookups]
ResultSeqs == UNION {[1..n -> ResultRows] : n \in 0..MaxResults}
GetProfiles ==
  {[found |-> FALSE, age |-> 0]} \cup {[found |-> TRUE, age |-> a] : a \in {17, 35}}

InitGet ==
  /\ BandsIdle /\ ApptIdle /\ UiIdle
  /\ AgeIdle /\ RuleIdle /\ RangeIdle /\ FormatIdle /\ CsvIdle
  /\ \E p \in GetProfiles, e \in BOOLEAN, rs \in ResultSeqs :
       get = [NoGet EXCEPT !.pc = "profile", !.profile = p,
                           !.resultsError = e, !.results = rs]

\* the test of the lookup for an error only
lookupFailed_ErrorOnly(lookup) == lookup.error

\* if (rangeError || !refRange)
lookupFailed(lookup) == lookup.error \/ lookup.data = NoRow

\* steps 1 and 2: the profile query returned; the age group is computed,
\* and its exception is caught by the handler
GetProfile ==
  /\ get.pc = "profile"
  /\ get' = IF ~get.profile.found THEN [get EXCEPT !.pc = "done", !.code = 404]
            ELSE IF calculateAgeGroup(get.profile.age) = InvalidAge
            THEN [get EXCEPT !.pc = "done", !.code = 500]
            ELSE [get EXCEPT !.pc = "results",
                             !.ageGroup = calculateAgeGroup(get.profile.age)]
  /\ UNCHANGED <<ageVars, ruleVars, rangeVars, referenceRange, csvVars>>
  /\ UNCHANGED <<bandVars, apptVars, uiVars>>

\* step 3: the results query returned
GetResults ==
  /\ get.pc = "results"
  /\ get' = IF get.resultsError THEN [get EXCEPT !.pc = "done", !.code = 500]
            ELSE IF Len(get.results) = 0 THEN [get EXCEPT !.pc = "done", !.code = 404]
            ELSE [get EXCEPT !.pc = "loop"]
  /\ UNCHANGED <<ageVars, ruleVars, rangeVars, referenceRange, csvVars>>
  /\ UNCHANGED <<bandVars, apptVars, uiVars>>

\* step 4: the lookup of one result returned; after the last result the
\* response is sent
GetRange ==
  /\ get.pc = "loop"
  /\ LET result == get.results[get.idx]
         lookup == result.lookup
         ranges == convertReferenceRangeToRangeBands(lookup.data)
         one == [id |-> get.idx, currentValue |-> result.value, ranges |-> ranges,
                 status |-> calculateStatusFromBands(result.value, ranges),
                 referenceRange |-> formatReferenceRange(lookup.data)]
         next == IF lookupFailed(lookup) THEN [get EXCEPT !.idx = @ + 1]
                 ELSE [get EXCEPT !.idx = @ + 1,
                                  !.converted = Append(@, lookup.data),
                                  !.biomarkers = Append(@, one)]
     IN get' = IF get.idx = Len(get.results)
               THEN [next EXCEPT !.pc = "done", !.code = 200]
               ELSE next
  /\ UNCHANGED <<ageVars, ruleVars, rangeVars, referenceRange, csvVars>>
  /\ UNCHANGED <<bandVars, apptVars, uiVars>>

NextGet == GetProfile \/ GetResults \/ GetRange

SpecGet == InitGet /\ [][NextGet]_vars

---------------------------------------------------------------------------
(* The age bucketing on its own *)

\* profiles.age is an INTEGER column without a CHECK
Ages == (0 - 2)..MaxAge

InitAge ==
  /\ BandsIdle /\ ApptIdle /\ UiIdle
  /\ RuleIdle /\ RangeIdle /\ FormatIdle /\ GetIdle /\ CsvIdle
  /\ age \in Ages
  /\ ageGroup = "none"

CalculateAgeGroup ==
  /\ ageGroup = "none"
  /\ ageGroup' = calculateAgeGroup(age)
  /\ UNCHANGED <<age, ruleVars, rangeVars, referenceRange, get, csvVars>>
  /\ UNCHANGED <<bandVars, apptVars, uiVars>>

NextAge == CalculateAgeGroup

SpecAge == InitAge /\ [][NextAge]_vars

---------------------------------------------------------------------------
(* The rule parser on its own *)

Operators == {"<", ">", "GE", "LE"}
\* optional white space
Pads == {<<>>, <<" ">>}
\* thresholds a rule can name: 0, 0.6, 1.2, 7.5 and 75
RuleNumbers == {0, 6, 12, 75, 750}
\* what stands where the number is expected: a number, nothing, the "-"
\* placeholder, a word, a word before a number, a number before a word
RuleBodies ==
  {ToText(n) : n \in RuleNumbers}
    \cup {<<>>, <<"-">>, <<"x">>, <<"x", "5">>, <<"5", "x">>}
RuleInputs ==
  {NullText}
    \cup {lead \o op \o gap \o body \o trail :
            lead \in Pads, op \in {<<o>> : o \in Operators} \cup {<<>>},
            gap \in Pads, body \in RuleBodies, trail \in Pads}

InitParse ==
  /\ BandsIdle /\ ApptIdle /\ UiIdle
  /\ AgeIdle /\ RangeIdle /\ FormatIdle /\ GetIdle /\ CsvIdle
  /\ rule \in RuleInputs
  /\ threshold = NotCalled

ParseOutOfRangeRule ==
  /\ threshold = NotCalled
  /\ threshold' = parseOutOfRangeRule(rule)
  /\ UNCHANGED <<rule, ageVars, rangeVars, referenceRange, get, csvVars>>
  /\ UNCHANGED <<bandVars, apptVars, uiVars>>

NextParse == ParseOutOfRangeRule

SpecParse == InitParse /\ [][NextParse]_vars

---------------------------------------------------------------------------
(* The range parser on its own *)

\* bounds a range text can name: 0.6, 60, 75, 85 and 100
RangeNumbers == {6, 600, 750, 850, 1000}
RangePairs == {<<750, 1000>>, <<600, 750>>, <<6, 6>>}
\* "A-B" with and without white space around the numbers and the hyphen
TwoBoundTexts ==
  {lead \o ToText(p[1]) \o g1 \o <<"-">> \o g2 \o ToText(p[2]) \o trail :
     lead \in Pads, g1 \in Pads, g2 \in Pads, trail \in Pads, p \in RangePairs}
\* an operator or nothing, then a number, a signed number, a hyphenated
\* pair, nothing, a word, a number before a word or a hyphen
RangeBodies ==
  {ToText(n) : n \in RangeNumbers}
    \cup {<<>>, <<"-">>, <<"x">>, <<"-", "5">>, <<"5", "x">>, <<"5", "-">>,
          <<"5", "-", "x">>, <<"x", "-", "5">>, <<"5", "-", "7">>,
          <<"1", "-", "2", "-", "3">>}
RangeInputs ==
  TwoBoundTexts
    \cup {lead \o op \o gap \o body \o trail :
            lead \in Pads, op \in {<<o>> : o \in Operators} \cup {<<>>},
            gap \in Pads, body \in RangeBodies, trail \in Pads}

InitRange ==
  /\ BandsIdle /\ ApptIdle /\ UiIdle
  /\ AgeIdle /\ RuleIdle /\ FormatIdle /\ GetIdle /\ CsvIdle
  /\ rangeString \in RangeInputs
  /\ range = NoRange

ParseRange ==
  /\ range = NoRange
  /\ range' = parseRange(rangeString)
  /\ UNCHANGED <<rangeString, ageVars, ruleVars, referenceRange, get, csvVars>>
  /\ UNCHANGED <<bandVars, apptVars, uiVars>>

NextRange == ParseRange

SpecRange == InitRange /\ [][NextRange]_vars

---------------------------------------------------------------------------
(* The range formatter on its own *)

InitFormat ==
  /\ ApptIdle /\ UiIdle
  /\ AgeIdle /\ RuleIdle /\ RangeIdle /\ GetIdle /\ CsvIdle
  /\ refRange \in ReferenceRanges
  /\ bands = <<>>
  /\ value = Null
  /\ status = "none"
  /\ stage = "idle"
  /\ referenceRange = NullText

FormatReferenceRange ==
  /\ referenceRange = NullText
  /\ referenceRange' = formatReferenceRange(refRange)
  /\ UNCHANGED <<ageVars, ruleVars, rangeVars, get, csvVars>>
  /\ UNCHANGED <<bandVars, apptVars, uiVars>>

NextFormat == FormatReferenceRange

SpecFormat == InitFormat /\ [][NextFormat]_vars

---------------------------------------------------------------------------
(* The two band builders side by side: a reference range of the database   *)
(* goes through convertReferenceRangeToRangeBands, a definition row of a   *)
(* CSV file through parseBiomarkerRow.                                     *)

\* what a range column of a CSV row holds: no such column, nothing, the
\* "-" placeholder, the formats of the README, and a word
CsvTexts ==
  {NullText, <<>>, <<"-">>, <<"x">>,
   ToText(750) \o <<"-">> \o ToText(1000), ToText(600) \o <<"-">> \o ToText(750),
   <<"<">> \o ToText(600), <<">">> \o ToText(1000), <<"GE">> \o ToText(1000),
   ToText(850)}
\* the value of the "Graph Value:" row: 78, 50, and what parseFloat makes
\* of a lone point
CsvValues == {Num(780), Num(500), NaN}
CsvRows ==
  [Biomarker_Name : {<<>>, <<"M", "H", "S">>}, Unit : {<<>>, <<"m", "g">>},
   Optimal : CsvTexts, InRange : CsvTexts, OutOfRange : CsvTexts, value : CsvValues]

InitCsv ==
  /\ BandsIdle /\ ApptIdle /\ UiIdle
  /\ AgeIdle /\ RuleIdle /\ RangeIdle /\ FormatIdle /\ GetIdle
  /\ defRow \in CsvRows
  /\ biomarker = NotParsed

ParseBiomarkerRow ==
  /\ defRow # NoCsvRow
  /\ biomarker = NotParsed
  /\ biomarker' = parseBiomarkerRow(defRow, defRow.value)
  /\ UNCHANGED <<defRow, ageVars, ruleVars, rangeVars, referenceRange, get>>
  /\ UNCHANGED <<bandVars, apptVars, uiVars>>

InitOrder == InitBands \/ InitCsv

NextOrder == BuildBands \/ ParseBiomarkerRow

SpecOrder == InitOrder /\ [][NextOrder]_vars

---------------------------------------------------------------------------
(* Vocabulary of the properties *)

\* a band covers a value: each bound is absent or inclusive
Covers(b, v) ==
  /\ (b.min = Null \/ (v # NaN /\ b.min # NaN /\ v.v >= b.min.v))
  /\ (b.max = Null \/ (v # NaN /\ b.max # NaN /\ v.v <= b.max.v))

StatusOfLabel(l) == CASE l = "Optimal" -> "optimal" [] l = "In range" -> "in-range"
                      [] l = "Out of range" -> "out-of-range"

CoveringBands(bs, v) == {i \in 1..Len(bs) : Covers(bs[i], v)}
FirstCovering(bs, v) == CHOOSE i \in CoveringBands(bs, v) : \A j \in CoveringBands(bs, v) : i <= j

HasOptimal(ref) == ref.optimal_low # Null /\ ref.optimal_high # Null
HasInRange(ref) == ref.inrange_low # Null /\ ref.inrange_high # Null
LowRuleText(n) == <<"<">> \o ToText(n)
HighRuleText(n) == <<">", " ">> \o ToText(n)

\* C1: the classifier returns the status of the first band, in sequence
\* order, whose inclusive bounds cover the value, and out-of-range when no
\* band covers it.
C1_FirstMatchWins ==
  stage = "classified" =>
    status = IF CoveringBands(bands, value) = {} THEN "out-of-range"
             ELSE StatusOfLabel(bands[FirstCovering(bands, value)].label)

\* two bands of different labels cover the value on one of its bounds, and
\* the first one decided
C1_Witness ==
  /\ stage = "classified"
  /\ Len(bands) = 2
  /\ CoveringBands(bands, value) = {1, 2}
  /\ bands[1].label = "In range" /\ bands[2].label = "Optimal"
  /\ bands[1].max = value /\ bands[2].min = value
  /\ status = "in-range"

\* C2: the midpoint of the optimal interval of a reference range is
\* classified optimal against the bands built from that reference range.
C2_OptimalMidpointIsOptimal ==
  (/\ stage = "classified"
   /\ HasOptimal(refRange)
   /\ refRange.optimal_low.v <= refRange.optimal_high.v
   /\ value = Num((refRange.optimal_low.v + refRange.optimal_high.v) \div 2))
  => status = "optimal"

\* the creatinine shape: no in-range group, optimal [lo, hi], rules at lo and hi
CreatinineShape(ref) ==
  /\ HasOptimal(ref)
  /\ ref.inrange_low = Null /\ ref.inrange_high = Null
  /\ ref.optimal_low.v <= ref.optimal_high.v
  /\ ref.outofrange_low_rule = LowRuleText(ref.optimal_low.v)
  /\ ref.outofrange_high_rule = HighRuleText(ref.optimal_high.v)

\* C3: for the creatinine shape every value of [lo, hi], both ends
\* included, is optimal and every value outside is out-of-range.
C3_CreatinineBoundariesOptimal ==
  (stage = "classified" /\ CreatinineShape(refRange) /\ value # NaN) =>
    IF refRange.optimal_low.v <= value.v /\ value.v <= refRange.optimal_high.v
    THEN status = "optimal" ELSE status = "out-of-range"

\* position of each group's band in the built sequence when every group
\* before it in [low rule, in-range, optimal, high rule] counts for one
Count(b) == IF b THEN 1 ELSE 0
LowAt(ref) == 1
InRangeAt(ref) == Count(Truthy(ref.outofrange_low_rule)) + 1
OptimalAt(ref) == InRangeAt(ref) + Count(HasInRange(ref))
HighAt(ref) == OptimalAt(ref) + Count(HasOptimal(ref))
GroupCount(ref) == HighAt(ref) - 1 + Count(Truthy(ref.outofrange_high_rule))

\* C4: the builder emits one band per present group, in the order low
\* out-of-range, In range, Optimal, high out-of-range, each with the bounds,
\* label and colour of its group; optimal alone with both rules gives
\* exactly the three bands Out of range, Optimal, Out of range.
C4_FixedAssembly ==
  stage # "start" =>
    /\ Len(bands) = GroupCount(refRange)
    /\ Truthy(refRange.outofrange_low_rule) =>
         LET b == bands[LowAt(refRange)]
         IN /\ b.label = "Out of range" /\ b.color = "red" /\ b.min = Null
            /\ \A n \in Levels :
                 refRange.outofrange_low_rule \in {LowRuleText(n), HighRuleText(n)}
                   => b.max = Num(n)
    /\ HasInRange(refRange) =>
         LET b == bands[InRangeAt(refRange)]
         IN /\ b.label = "In range" /\ b.color = "orange"
            /\ b.min = refRange.inrange_low /\ b.max = refRange.inrange_high
    /\ HasOptimal(refRange) =>
         LET b == bands[OptimalAt(refRange)]
         IN /\ b.label = "Optimal" /\ b.color = "green"
            /\ b.min = refRange.optimal_low /\ b.max = refRange.optimal_high
    /\ Truthy(refRange.outofrange_high_rule) =>
         LET b == bands[HighAt(refRange)]
         IN /\ b.label = "Out of range" /\ b.color = "red" /\ b.max = Null
            /\ \A n \in Levels :
                 refRange.outofrange_high_rule \in {LowRuleText(n), HighRuleText(n)}
                   => b.min = Num(n)
    /\ CreatinineShape(refRange) =>
         /\ Len(bands) = 3
         /\ \A i \in 1..3 : bands[i].label # "In range" /\ bands[i].order = i

\* all four groups are present and the four bands are built in order
C4_Witness ==
  /\ stage = "built"
  /\ HasOptimal(refRange) /\ HasInRange(refRange)
  /\ refRange.inrange_low.v < refRange.optimal_low.v
  /\ refRange.optimal_low.v <= refRange.optimal_high.v
  /\ refRange.optimal_high.v < refRange.inrange_high.v
  /\ refRange.outofrange_low_rule = LowRuleText(refRange.inrange_low.v)
  /\ refRange.outofrange_high_rule = HighRuleText(refRange.inrange_high.v)
  /\ Len(bands) = 4
  /\ bands[2].label = "In range" /\ bands[3].label = "Optimal"

\* C5: the orders of an n-band result are 1..n in sequence position,
\* whichever groups are present.
C5_ContiguousOrders ==
  stage # "start" => \A i \in 1..Len(bands) : bands[i].order = i

\* in-range encloses optimal and the rules sit at the in-range bounds
NestedShape(ref) ==
  /\ HasOptimal(ref) /\ HasInRange(ref)
  /\ ref.inrange_low.v <= ref.optimal_low.v
  /\ ref.optimal_low.v <= ref.optimal_high.v
  /\ ref.optimal_high.v <= ref.inrange_high.v
  /\ ref.outofrange_low_rule = LowRuleText(ref.inrange_low.v)
  /\ ref.outofrange_high_rule = HighRuleText(ref.inrange_high.v)

\* b.max <= b'.min with an absent max read as +infinity and an absent min
\* as -infinity
Below(b, c) == b.max # Null /\ c.min # Null /\ b.max # NaN /\ c.min # NaN
               /\ b.max.v <= c.min.v

\* C6: for a nested reference range the bands, taken by increasing order,
\* run from the lowest values to the highest: each band ends where the
\* next one starts or before.
C6_BandsRunLowToHigh ==
  (stage # "start" /\ NestedShape(refRange)) =>
    \A i \in 1..Len(bands), j \in 1..Len(bands) :
      bands[j].order = bands[i].order + 1 => Below(bands[i], bands[j])

\* a rule text that is present but from which the parser gets no number
NoThreshold(text) == Truthy(text) /\ parseOutOfRangeRule(text).k # "num"

\* C7: a present rule without a threshold produces no band, and no band
\* is unbounded on both sides.
C7_UnparseableRuleOmitted ==
  stage # "start" =>
    /\ Len(bands) = GroupCount(refRange)
                      - Count(NoThreshold(refRange.outofrange_low_rule))
                      - Count(NoThreshold(refRange.outofrange_high_rule))
    /\ \A i \in 1..Len(bands) : ~(bands[i].min = Null /\ bands[i].max = Null)

---------------------------------------------------------------------------
(* Properties of the booking routes *)

SameSlot(a, b) == a.profile_id = b.profile_id /\ a.appointment_at = b.appointment_at

NoTwoBooked ==
  \A a \in appointments, b \in appointments :
    (a.id # b.id /\ SameSlot(a, b)) => ~(a.status = "booked" /\ b.status = "booked")

\* requests that went on to the database after validation
Answered == {r \in 1..NReq : requests[r].pc = "done" /\ requests[r].at # "validate"}

Answers(r) == requests[r].pc # "done" /\ requests'[r].pc = "done"
Missing(body) == body.profile_id = Absent \/ body.appointment_at = Absent \/ body.source = ""
Booked(body) == \E a \in appointments : SameSlot(a, body) /\ a.status = "booked"
WritesNothing == appointments' = appointments
InsertsBooked(r) ==
  \E row \in appointments' \ appointments :
    /\ appointments' = appointments \cup {row}
    /\ row.status = "booked" /\ SameSlot(row, requests'[r])
    /\ row.source = requests'[r].source
    /\ requests'[r].row = row.id

Insertable(body) == body.source \in Sources /\ body.profile_id \in Profiles

C10_OneRowPerSlot ==
  \A a \in appointments, b \in appointments :
    a.id # b.id => ~SameSlot(a, b)

---------------------------------------------------------------------------
(* Properties of the library functions *)

\* C11: the age bucketing returns '18-39' for every age from 18 to 39,
\* '40-59' for every age from 40 to 59, '60+' for every age of 60 or more,
\* and fails with the invalid-age error for every age below 18, 17 included.
C11_AgeBuckets ==
  ageGroup # "none" =>
    /\ (18 <= age /\ age <= 39) => ageGroup = "18-39"
    /\ (40 <= age /\ age <= 59) => ageGroup = "40-59"
    /\ age >= 60 => ageGroup = "60+"
    /\ age < 18 => ageGroup = InvalidAge

\* the age just below the first bucket was refused
C11_Witness == age = 17 /\ ageGroup = InvalidAge

\* the text is an operator followed, with or without white space, by the
\* decimal text of n
IsThresholdText(text, n) ==
  \E o \in Operators, lead \in Pads, gap \in Pads, trail \in Pads :
    text = lead \o <<o>> \o gap \o ToText(n) \o trail

\* C12: for each of the four operators <, >, U+2265 and U+2264, with or
\* without white space between the operator and the number, the rule parser
\* returns the decimal number that follows the operator.
C12_NumberAfterOperator ==
  threshold # NotCalled =>
    \A n \in RuleNumbers : IsThresholdText(rule, n) => threshold = Num(n)

\* "< 0.6" was parsed to 0.6
C12_Witness ==
  /\ rule = <<"<", " ", "0", ".", "6">>
  /\ threshold = Num(6)

\* the text carries no threshold: it is absent or empty, it does not start
\* with an operator (the "-" placeholder included), or no number can be
\* read after its operator
CarriesNoThreshold(text) ==
  \/ text = NullText
  \/ LET t == Trim(text)
     IN \/ Len(t) = 0
        \/ t[1] \notin Operators
        \/ ParseFloat(Tail(t)) = NaN

\* C13: for every text that carries no threshold the rule parser returns
\* null, never another value.
C13_NullWithoutThreshold ==
  (threshold # NotCalled /\ CarriesNoThreshold(rule)) => threshold = Null

\* the shapes of a range text, white space aside
Padded(text, body) == \E lead \in Pads, trail \in Pads : text = lead \o body \o trail
IsTwoBoundText(text, a, b) ==
  \E g1 \in Pads, g2 \in Pads :
    Padded(text, ToText(a) \o g1 \o <<"-">> \o g2 \o ToText(b))
IsOperatorText(text, o, n) ==
  \E gap \in Pads : Padded(text, <<o>> \o gap \o ToText(n))
\* no number can be read at the start of the text, nor after a leading
\* <, > or U+2265
Unparseable(text) ==
  LET t == Trim(text)
  IN /\ ParseFloat(t) = NaN
     /\ ~(Len(t) > 0 /\ t[1] \in {"<", ">", "GE"} /\ ParseFloat(Tail(t)) # NaN)

\* C14: the range parser maps "A-B" to {min: A, max: B}, "<N" to
\* {min: null, max: N}, ">N" and "U+2265 N" to {min: N, max: null}, a bare
\* number N to {min: N, max: N}, and empty, "-" or unparseable text to
\* {min: null, max: null}; a text that starts with a comparison operator is
\* never read as a two-bound range, whatever hyphen it holds.
C14_RangeFormats ==
  range # NoRange =>
    /\ \A a \in RangeNumbers, b \in RangeNumbers :
         IsTwoBoundText(rangeString, a, b) => range = [min |-> Num(a), max |-> Num(b)]
    /\ \A n \in RangeNumbers :
         /\ IsOperatorText(rangeString, "<", n) => range = [min |-> Null, max |-> Num(n)]
         /\ IsOperatorText(rangeString, ">", n) => range = [min |-> Num(n), max |-> Null]
         /\ IsOperatorText(rangeString, "GE", n) => range = [min |-> Num(n), max |-> Null]
         /\ Padded(rangeString, ToText(n)) => range = [min |-> Num(n), max |-> Num(n)]
    /\ (Trim(rangeString) \in {<<>>, <<"-">>} \/ Unparseable(rangeString))
         => range = [min |-> Null, max |-> Null]
    /\ (Len(Trim(rangeString)) > 0 /\ Trim(rangeString)[1] \in Operators)
         => (range.min = Null \/ range.max = Null)
    /\ range.min # NaN /\ range.max # NaN

\* "75 - 100" was parsed to the bounds 75 and 100
C14_Witness ==
  /\ rangeString = <<"7", "5", " ", "-", " ", "1", "0", "0">>
  /\ range = [min |-> Num(750), max |-> Num(1000)]

\* no column of the record holds anything
NothingAvailable(ref) ==
  /\ ref.optimal_low = Null /\ ref.optimal_high = Null
  /\ ref.inrange_low = Null /\ ref.inrange_high = Null
  /\ ~Truthy(ref.outofrange_low_rule) /\ ~Truthy(ref.outofrange_high_rule)

\* C15: the formatter returns "optimal_low - optimal_high" when the optimal
\* group is present, else "inrange_low - inrange_high" when the in-range
\* group is present, else the text of the low rule when it is present, else
\* "N/A"; and it returns "N/A" only when nothing is available in the record.
C15_FormatPrecedence ==
  referenceRange # NullText =>
    /\ referenceRange =
         IF HasOptimal(refRange)
         THEN ToText(refRange.optimal_low.v) \o Dash \o ToText(refRange.optimal_high.v)
         ELSE IF HasInRange(refRange)
         THEN ToText(refRange.inrange_low.v) \o Dash \o ToText(refRange.inrange_high.v)
         ELSE IF Truthy(refRange.outofrange_low_rule) THEN refRange.outofrange_low_rule
         ELSE NotAvailable
    /\ referenceRange = NotAvailable => NothingAvailable(refRange)

---------------------------------------------------------------------------
(* Properties of GET /api/biomarkers *)

\* results whose lookup has been answered
Looked == 1..(get.idx - 1)
HasRow(i) == ~get.results[i].lookup.error /\ get.results[i].lookup.data # NoRow
\* every group of the record is absent: bounds null, rules null or empty
NoGroups(ref) ==
  /\ ref.optimal_low = Null /\ ref.optimal_high = Null
  /\ ref.inrange_low = Null /\ ref.inrange_high = Null
  /\ ref.outofrange_low_rule \in {NullText, <<>>}
  /\ ref.outofrange_high_rule \in {NullText, <<>>}
\* the request got as far as the loop over the results
Looping ==
  /\ get.profile.found /\ get.profile.age >= 18
  /\ ~get.resultsError /\ Len(get.results) > 0

C17_MissingRangeSkipped ==
  /\ \A i \in 1..Len(get.converted) : get.converted[i] # NoRow
  /\ Len(get.biomarkers) = Cardinality({i \in Looked : HasRow(i)})
  /\ Len(get.converted) = Len(get.biomarkers)
  /\ \A j \in 1..Len(get.biomarkers) :
       LET b == get.biomarkers[j]
       IN /\ b.id \in Looked /\ HasRow(b.id)
          /\ b.currentValue = get.results[b.id].value
          /\ get.converted[j] = get.results[b.id].lookup.data
          /\ b.ranges = convertReferenceRangeToRangeBands(get.converted[j])
          /\ \A k \in 1..(j - 1) : get.biomarkers[k].id < b.id
  /\ (get.pc = "done" /\ Looping) =>
       get.code = 200 /\ get.idx = Len(get.results) + 1

\* the lookup of the first result failed and the second result was
\* returned alone
C17_Witness ==
  /\ get.pc = "done" /\ get.code = 200
  /\ Len(get.results) = 2
  /\ get.results[1].lookup.error
  /\ Len(get.biomarkers) = 1
  /\ get.biomarkers[1].id = 2

---------------------------------------------------------------------------
(* Properties of the band pipeline, continued *)

\* C18: for a reference range with all four groups whose in-range interval
\* encloses the optimal interval and whose rules sit at the in-range bounds,
\* every value within the in-range interval but outside the optimal
\* interval is classified in-range.
C18_BetweenOptimalAndInRange ==
  (/\ stage = "classified"
   /\ NestedShape(refRange)
   /\ value # NaN
   /\ refRange.inrange_low.v <= value.v /\ value.v <= refRange.inrange_high.v
   /\ (value.v < refRange.optimal_low.v \/ value.v > refRange.optimal_high.v))
  => status = "in-range"

\* bands without any bound, the only ones a non-finite value can match
Unbounded(bs) == {i \in 1..Len(bs) : bs[i].min = Null /\ bs[i].max = Null}

\* C19: the classifier always returns one of optimal, in-range and
\* out-of-range; a non-finite value matches no band that has a non-null
\* bound, so its status is that of the first band without any bound and
\* out-of-range when every band has one.
C19_TotalAndNaNFallsThrough ==
  stage = "classified" =>
    /\ status \in {"optimal", "in-range", "out-of-range"}
    /\ value = NaN =>
         status = IF Unbounded(bands) = {} THEN "out-of-range"
                  ELSE StatusOfLabel(bands[CHOOSE i \in Unbounded(bands) :
                                             \A j \in Unbounded(bands) : i <= j].label)

\* a non-finite value went past an Optimal and an In range band, each
\* with a bound, and fell through to out-of-range
C19_Witness ==
  /\ stage = "classified"
  /\ value = NaN
  /\ Len(bands) = 2
  /\ bands[1].label = "Optimal" /\ bands[1].min = Null /\ bands[1].max = Num(4)
  /\ bands[2].label = "In range" /\ bands[2].min = Num(2) /\ bands[2].max = Null
  /\ status = "out-of-range"

\* the order the README gives to a band of a CSV row: an Out of range
\* band with an upper bound only is the low one
ReadmeOrder(b) ==
  CASE b.label = "Optimal" -> 2
    [] b.label = "In range" -> 3
    [] b.label = "Out of range" -> IF b.min = Null THEN 1 ELSE 4

\* C20: every band set built from a reference range of the database or
\* from a CSV row gives order 1 to the low out-of-range band, 2 to the
\* Optimal band, 3 to the In range band and 4 to the high out-of-range band.
C20_ReadmeBandOrdering ==
  /\ stage = "built" =>
       /\ Truthy(refRange.outofrange_low_rule) => bands[LowAt(refRange)].order = 1
       /\ HasOptimal(refRange) => bands[OptimalAt(refRange)].order = 2
       /\ HasInRange(refRange) => bands[InRangeAt(refRange)].order = 3
       /\ Truthy(refRange.outofrange_high_rule) => bands[HighAt(refRange)].order = 4
  /\ biomarker.k = "biomarker" =>
       \A i \in 1..Len(biomarker.ranges) :
         biomarker.ranges[i].order = ReadmeOrder(biomarker.ranges[i])

----------------------------------------------------------------------------
(* Appointment time slots (src/unnamed/part_011) *)

\* a Date is a local calendar day and a minute of that day; an instant is
\* counted in minutes, MinutesPerDay to the local day
MaxDay == 30
MinutesPerDay == 1440
MinutesPerHour == 60

\* APPOINTMENT_CONFIG
START_HOUR == 9
END_HOUR == 17
INTERVAL_MINUTES == 30

\* String.padStart(2, '0')
padStart2(text) == IF Len(text) < 2 THEN <<"0">> \o text ELSE text

\* new Date(date) followed by setHours(hour, minute, 0, 0): the day of the
\* argument is kept and its time of day is replaced
setHours(d, hour, minute) == d.day * MinutesPerDay + hour * MinutesPerHour + minute

\* one pass of the inner loop body: the slot pushed for (hour, minute)
TimeSlot(d, hour, minute) ==
  [time |-> padStart2(IntText(hour)) \o <<":">> \o padStart2(IntText(minute)),
   datetime |-> setHours(d, hour, minute),
   isBooked |-> FALSE]

\* the two nested for loops, run from (hour, minute) while hour < endHour
RECURSIVE TimeSlotLoop(_, _, _, _, _)
TimeSlotLoop(d, hour, minute, endHour, acc) ==
  IF ~(hour < endHour) THEN acc
  ELSE IF ~(minute < MinutesPerHour)
       THEN TimeSlotLoop(d, hour + 1, 0, endHour, acc)
       ELSE TimeSlotLoop(d, hour, minute + INTERVAL_MINUTES, endHour,
                         Append(acc, TimeSlot(d, hour, minute)))

\* the loop with hour <= END_HOUR in place of hour < END_HOUR
generateTimeSlots_ThroughEndHour(d) ==
  TimeSlotLoop(d, START_HOUR, 0, END_HOUR + 1, <<>>)

generateTimeSlots(d) == TimeSlotLoop(d, START_HOUR, 0, END_HOUR, <<>>)

\* the dates handed to generateTimeSlots: any day, at midnight, inside the
\* business hours, or in the last minute of the day
TimesOfDay == {0, 570, 1439}
SlotDates == [day : 0..MaxDay, minute : TimesOfDay]

InitSlots ==
  /\ BandsIdle /\ ApptIdle /\ LibIdle /\ ModalIdle /\ HookIdle /\ DisplayIdle
  /\ date \in SlotDates
  /\ slots = <<>>

GenerateTimeSlots ==
  /\ slots = <<>>
  /\ slots' = generateTimeSlots(date)
  /\ UNCHANGED date
  /\ UNCHANGED <<bandVars, apptVars, libVars, modalVars, hookVars, displayVars>>

NextSlots == GenerateTimeSlots

SpecSlots == InitSlots /\ [][NextSlots]_vars

\* C21: for every date generateTimeSlots returns exactly 16 slots, the first
\* at 09:00 and the last at 16:30 of that day, each slot exactly 30 minutes
\* after the one before it, none at or after 17:00, and none booked.
C21_SixteenSlots ==
  slots # <<>> =>
    /\ Len(slots) = 16
    /\ slots[1].time = <<"0", "9", ":", "0", "0">>
    /\ slots[1].datetime = date.day * MinutesPerDay + 9 * MinutesPerHour
    /\ slots[Len(slots)].time = <<"1", "6", ":", "3", "0">>
    /\ slots[Len(slots)].datetime = date.day * MinutesPerDay + 16 * MinutesPerHour + 30
    /\ \A i \in 1..(Len(slots) - 1) :
         slots[i + 1].datetime = slots[i].datetime + 30
    /\ \A i \in 1..Len(slots) :
         /\ slots[i].datetime < date.day * MinutesPerDay + 17 * MinutesPerHour
         /\ slots[i].isBooked = FALSE

\* a list was generated for a date whose own time of day lies after the
\* first slot
C21_Witness == slots # <<>> /\ date.minute = 570 /\ date.day > 0

----------------------------------------------------------------------------
(* Booking modal (src/src/components/BookingModal.tsx) *)

MaxFormDay == 1
MaxCreates == 2

\* isNaN(d.getTime()) of an Invalid Date
InvalidDate == 0 - 1

\* the clock readings and the times of day that can be typed: one minute
\* before opening, opening, and the last slot
FormTimes == {539, 540, 990}
FormDays == 0..MaxFormDay
Instants == {d * MinutesPerDay + m : d \in FormDays, m \in FormTimes}

\* toDateInputValue: the text of the local day of an instant (the day count
\* stands for YYYY-MM-DD)
toDateInputValue(t) == IntText(t \div MinutesPerDay)

\* toTimeInputValue: HH:mm of an instant
toTimeInputValue(t) ==
  padStart2(IntText((t % MinutesPerDay) \div MinutesPerHour)) \o <<":">>
    \o padStart2(IntText(t % MinutesPerHour))

\* getDefaultDateTime: the day of the clock reading t at 9:00
getDefaultDateTime(t) ==
  LET base == (t \div MinutesPerDay) * MinutesPerDay + 9 * MinutesPerHour
  IN [date |-> toDateInputValue(base), time |-> toTimeInputValue(base)]

AllDigits(text) == Len(text) > 0 /\ \A i \in 1..Len(text) : text[i] \in Digits

\* toLocalDate: new Date(`${dateStr}T${timeStr}`), local time; anything that
\* is not a day and an HH:mm time gives an Invalid Date
toLocalDate(dateStr, timeStr) ==
  IF /\ AllDigits(dateStr)
     /\ Len(timeStr) = 5
     /\ timeStr[3] = ":"
     /\ AllDigits(SubSeq(timeStr, 1, 2))
     /\ AllDigits(SubSeq(timeStr, 4, 5))
     /\ DigitsValue(SubSeq(timeStr, 1, 2)) < 24
     /\ DigitsValue(SubSeq(timeStr, 4, 5)) < MinutesPerHour
  THEN DigitsValue(dateStr) * MinutesPerDay
         + DigitsValue(SubSeq(timeStr, 1, 2)) * MinutesPerHour
         + DigitsValue(SubSeq(timeStr, 4, 5))
  ELSE InvalidDate

\* appointmentDate < now, with the comparison dropped
isPast_Never(appointmentDate, t) == FALSE

\* appointmentDate < now
isPast(appointmentDate, t) == appointmentDate < t

ProfileMsg == "Please wait for your profile to load."
BothMsg == "Please select both date and time."
InvalidMsg == "Invalid date or time."
FutureMsg == "Please select a future date and time."
CreateFailedMsg == "Failed to create appointment"

\* the modal is mounted and opened at some clock reading, with the profile
\* loaded or still loading; resetForm fills in the defaults
InitModal ==
  /\ BandsIdle /\ ApptIdle /\ LibIdle /\ SlotIdle /\ HookIdle /\ DisplayIdle
  /\ now \in Instants
  /\ \E p \in BOOLEAN :
       modal = [open |-> TRUE, profile |-> p,
                date |-> getDefaultDateTime(now).date,
                time |-> getDefaultDateTime(now).time,
                loading |-> FALSE, error |-> "null"]
  /\ created = <<>>

ModalUnchanged ==
  UNCHANGED <<bandVars, apptVars, libVars, slotVars, hookVars, displayVars>>

\* useCurrentProfile delivers the profile
ProfileLoaded ==
  /\ modal.open /\ ~modal.profile
  /\ modal' = [modal EXCEPT !.profile = TRUE]
  /\ UNCHANGED <<now, created>>
  /\ ModalUnchanged

\* time passes
Tick ==
  /\ \E t \in Instants : t > now /\ now' = t
  /\ UNCHANGED <<modal, created>>
  /\ ModalUnchanged

\* onChange of the date input (disabled while loading)
SetDate ==
  /\ modal.open /\ ~modal.loading
  /\ \E d \in FormDays : modal' = [modal EXCEPT !.date = IntText(d)]
  /\ UNCHANGED <<now, created>>
  /\ ModalUnchanged

\* onChange of the time input (disabled while loading)
SetTime ==
  /\ modal.open /\ ~modal.loading
  /\ \E m \in FormTimes : modal' = [modal EXCEPT !.time = toTimeInputValue(m)]
  /\ UNCHANGED <<now, created>>
  /\ ModalUnchanged

\* the state handleSubmit leaves when it returns with a message
Rejected(msg) ==
  /\ modal' = [modal EXCEPT !.error = msg]
  /\ UNCHANGED created

\* handleSubmit up to the await: the submit button is disabled while loading
\* or without a profile, and both inputs are required
HandleSubmit ==
  /\ modal.open /\ ~modal.loading /\ modal.profile
  /\ modal.date # <<>> /\ modal.time # <<>>
  /\ Len(created) < MaxCreates
  /\ LET defaults == getDefaultDateTime(now)
         trimmedDate == Trim(modal.date)
         trimmedTime == Trim(modal.time)
         dateStr == IF trimmedDate # <<>> THEN trimmedDate ELSE defaults.date
         timeStr == IF trimmedTime # <<>> THEN trimmedTime ELSE defaults.time
         appointmentDate == toLocalDate(dateStr, timeStr)
     IN IF ~modal.profile THEN Rejected(ProfileMsg)
        ELSE IF dateStr = <<>> \/ timeStr = <<>> THEN Rejected(BothMsg)
        ELSE IF appointmentDate = InvalidDate THEN Rejected(InvalidMsg)
        ELSE IF isPast(appointmentDate, now) THEN Rejected(FutureMsg)
        ELSE /\ modal' = [modal EXCEPT !.loading = TRUE, !.error = "null"]
             /\ created' = Append(created, [appointment_at |-> appointmentDate,
                                            submitted |-> now])
  /\ UNCHANGED now
  /\ ModalUnchanged

\* createAppointment resolves: handleClose (of the render that submitted,
\* where loading was false) closes the modal, then finally clears loading
CreateAppointmentResolved ==
  /\ modal.loading
  /\ modal' = [modal EXCEPT !.open = FALSE, !.loading = FALSE]
  /\ UNCHANGED <<now, created>>
  /\ ModalUnchanged

\* createAppointment rejects: the message is shown, finally clears loading
CreateAppointmentRejected ==
  /\ modal.loading
  /\ modal' = [modal EXCEPT !.error = CreateFailedMsg, !.loading = FALSE]
  /\ UNCHANGED <<now, created>>
  /\ ModalUnchanged

NextModal ==
  \/ ProfileLoaded
  \/ Tick
  \/ SetDate
  \/ SetTime
  \/ HandleSubmit
  \/ CreateAppointmentResolved
  \/ CreateAppointmentRejected

SpecModal == InitModal /\ [][NextModal]_vars

\* the date and time the form holds, read as an instant
FormInstant == toLocalDate(modal.date, modal.time)

\* C22: submitting the booking form with a date-time earlier than the
\* current time never calls createAppointment, shows 'Please select a future
\* date and time.', and does not leave the form loading.
C22_PastNeverBooked ==
  [][(HandleSubmit /\ FormInstant # InvalidDate /\ FormInstant < now) =>
       /\ created' = created
       /\ modal'.error = FutureMsg
       /\ modal'.loading = FALSE]_vars

\* a past date-time was submitted and turned away, after an earlier
\* submission of the same form had reached createAppointment
C22_Witness ==
  /\ modal.error = FutureMsg
  /\ FormInstant # InvalidDate /\ FormInstant < now
  /\ Len(created) = 1

----------------------------------------------------------------------------
(* useAppointments hook (src/unnamed/part_008) against the appointment      *)
(* routes.  A call of the hook runs up to its await in one step and from    *)
(* the reply of the route to its return in another; the route serves the    *)
(* request when it replies.                                                 *)

\* the tables a component can find: empty, one row, or a slot that was
\* cancelled and booked again
HookSeeds ==
  { {},
    {[id |-> 1, profile_id |-> 1, appointment_at |-> 1, status |-> "booked",
      source |-> "schedule_page"]},
    {[id |-> 1, profile_id |-> 1, appointment_at |-> 1, status |-> "cancelled",
      source |-> "schedule_page"],
     [id |-> 2, profile_id |-> 1, appointment_at |-> 1, status |-> "booked",
      source |-> "schedule_page"]} }

\* GET /api/appointments: the rows ordered by appointment_at, rows of equal
\* time in any order
Orderings(table) ==
  {list \in [1..Cardinality(table) -> table] :
     /\ \A i, j \in 1..Cardinality(table) : i # j => list[i] # list[j]
     /\ \A i, j \in 1..Cardinality(table) :
          i < j => list[i].appointment_at <= list[j].appointment_at}

\* Array.prototype.sort by appointment_at: a stable sort
RECURSIVE InsertByTime(_, _)
InsertByTime(list, row) ==
  IF Len(list) = 0 \/ list[Len(list)].appointment_at <= row.appointment_at
  THEN Append(list, row)
  ELSE Append(InsertByTime(SubSeq(list, 1, Len(list) - 1), row), list[Len(list)])
RECURSIVE SortByTime(_)
SortByTime(list) ==
  IF Len(list) = 0 THEN <<>>
  ELSE InsertByTime(SortByTime(SubSeq(list, 1, Len(list) - 1)), list[Len(list)])

\* prev.map((apt) => (apt.id === id ? { ...apt, ...input } : apt))
MergeInput(list, id, st) ==
  [i \in 1..Len(list) |->
     IF list[i].id = id THEN [list[i] EXCEPT !.status = st] ELSE list[i]]

\* prev.map((apt) => (apt.id === id ? updatedAppointment : apt))
ReplaceRow(list, id, row) ==
  [i \in 1..Len(list) |-> IF list[i].id = id THEN row ELSE list[i]]

\* the PATCH route serving { status: st } for id: its status code and the
\* row it returns
PatchReply(table, id, st) ==
  LET target == {a \in table : a.id = id}
      old == CHOOSE a \in target : TRUE
      new == [old EXCEPT !.status = st]
  IN IF target = {} THEN [code |-> 404, row |-> 0]
     ELSE IF ConstraintError(table, new) # "" THEN [code |-> 500, row |-> 0]
     ELSE [code |-> 200, row |-> new]

\* the POST route serving a booking: its status code and the row it returns
PostReply(table, id, body) ==
  LET row == [id |-> id, profile_id |-> body.profile_id,
              appointment_at |-> body.appointment_at, status |-> "booked",
              source |-> body.source]
      error == ConstraintError(table, row)
  IN IF existingAppointments(table, body) # {} THEN [code |-> 409, row |-> 0]
     ELSE IF error = "23505" THEN [code |-> 409, row |-> 0]
     ELSE IF error # "" THEN [code |-> 500, row |-> 0]
     ELSE [code |-> 201, row |-> row]

\* setAppointments(previousAppointments)
RolledBack(list, previousAppointments) == previousAppointments

\* a component has mounted the hook; its list is empty or holds what a
\* first fetchAppointments returned
InitHook ==
  /\ BandsIdle /\ LibIdle /\ SlotIdle /\ ModalIdle /\ DisplayIdle
  /\ appointments \in HookSeeds
  /\ nextId = Cardinality(appointments) + 1
  /\ requests = [r \in 1..NReq |-> NoRequest]
  /\ patchResult = NoPatch
  /\ \E list \in {<<>>} \cup Orderings(appointments) :
       hook = [appointments |-> list, loading |-> FALSE, error |-> "null"]
  /\ calls = [c \in 1..NCalls |-> NoCall]

HookUnchanged ==
  UNCHANGED <<requests, patchResult, bandVars, libVars, slotVars, modalVars,
              displayVars>>

\* calls are numbered in the order they are made
CanStart(c) ==
  /\ calls[c].pc = "idle"
  /\ \A q \in 1..(c - 1) : calls[q].pc # "idle"

\* fetchAppointments up to the await
StartFetch(c) ==
  /\ CanStart(c)
  /\ hook' = [hook EXCEPT !.loading = TRUE, !.error = "null"]
  /\ calls' = [calls EXCEPT ![c] = [NoCall EXCEPT !.op = "fetch", !.pc = "awaiting"]]
  /\ UNCHANGED <<appointments, nextId>>
  /\ HookUnchanged

\* fetchAppointments from the reply on: the list is replaced, or the request
\* was rejected and the error is kept; loading is cleared
FetchReply(c) ==
  /\ calls[c].op = "fetch" /\ calls[c].pc = "awaiting"
  /\ \/ \E list \in Orderings(appointments) :
          hook' = [hook EXCEPT !.appointments = list, !.loading = FALSE]
     \/ hook' = [hook EXCEPT !.error = "Failed to fetch", !.loading = FALSE]
  /\ calls' = [calls EXCEPT ![c] = [@ EXCEPT !.pc = "returned"]]
  /\ UNCHANGED <<appointments, nextId>>
  /\ HookUnchanged

\* createAppointment up to the await
StartCreate(c) ==
  /\ CanStart(c)
  /\ \E t \in Times :
       calls' = [calls EXCEPT ![c] =
         [NoCall EXCEPT !.op = "create", !.pc = "awaiting", !.appointment_at = t]]
  /\ hook' = [hook EXCEPT !.error = "null"]
  /\ UNCHANGED <<appointments, nextId>>
  /\ HookUnchanged

\* createAppointment from the reply on: the new row is added and the list
\* sorted, or the error is set and thrown
CreateReply(c) ==
  /\ calls[c].op = "create" /\ calls[c].pc = "awaiting"
  /\ \/ LET body == [profile_id |-> 1, appointment_at |-> calls[c].appointment_at,
                     source |-> "schedule_page"]
            reply == PostReply(appointments, nextId, body)
        IN IF reply.code = 201
           THEN /\ appointments' = appointments \cup {reply.row}
                /\ nextId' = nextId + 1
                /\ hook' = [hook EXCEPT !.appointments =
                              SortByTime(Append(@, reply.row))]
                /\ calls' = [calls EXCEPT ![c] = [@ EXCEPT !.pc = "returned"]]
           ELSE /\ UNCHANGED <<appointments, nextId>>
                /\ hook' = [hook EXCEPT !.error = "This time slot is already booked"]
                /\ calls' = [calls EXCEPT ![c] = [@ EXCEPT !.pc = "threw"]]
     \/ /\ UNCHANGED <<appointments, nextId>>
        /\ hook' = [hook EXCEPT !.error = "Failed to fetch"]
        /\ calls' = [calls EXCEPT ![c] = [@ EXCEPT !.pc = "threw"]]
  /\ HookUnchanged

\* the ids a caller passes: those of the rows on display, and one that no row
\* carries
CallIds == {hook.appointments[i].id : i \in 1..Len(hook.appointments)} \cup {nextId}

\* updateAppointment up to the await: the list of the current render is
\* kept and the optimistic change applied
StartUpdate(c) ==
  /\ CanStart(c)
  /\ \E id \in CallIds, st \in Statuses :
       /\ calls' = [calls EXCEPT ![c] =
            [NoCall EXCEPT !.op = "update", !.pc = "awaiting", !.id = id,
                           !.status = st,
                           !.previousAppointments = hook.appointments]]
       /\ hook' = [hook EXCEPT !.error = "null",
                               !.appointments = MergeInput(@, id, st)]
  /\ UNCHANGED <<appointments, nextId>>
  /\ HookUnchanged

\* updateAppointment from the reply on.  A reply that is not OK restores the
\* kept list before the error is set and thrown; a rejected request goes
\* straight to the catch block.
UpdateReply(c) ==
  /\ calls[c].op = "update" /\ calls[c].pc = "awaiting"
  /\ \/ LET reply == PatchReply(appointments, calls[c].id, calls[c].status)
        IN IF reply.code = 200
           THEN /\ appointments' =
                     {IF a.id = calls[c].id THEN reply.row ELSE a : a \in appointments}
                /\ hook' = [hook EXCEPT !.appointments =
                              ReplaceRow(@, calls[c].id, reply.row)]
                /\ calls' = [calls EXCEPT ![c] = [@ EXCEPT !.pc = "returned"]]
           ELSE /\ UNCHANGED appointments
                /\ hook' = [hook EXCEPT
                     !.appointments = RolledBack(@, calls[c].previousAppointments),
                     !.error = IF reply.code = 404 THEN "Appointment not found"
                               ELSE "Failed to update appointment"]
                /\ calls' = [calls EXCEPT ![c] = [@ EXCEPT !.pc = "threw"]]
     \/ /\ UNCHANGED appointments
        /\ hook' = [hook EXCEPT !.error = "Failed to fetch"]
        /\ calls' = [calls EXCEPT ![c] = [@ EXCEPT !.pc = "threw"]]
  /\ UNCHANGED nextId
  /\ HookUnchanged

NextHook ==
  \E c \in 1..NCalls :
    \/ StartFetch(c)
    \/ FetchReply(c)
    \/ StartCreate(c)
    \/ CreateReply(c)
    \/ StartUpdate(c)
    \/ UpdateReply(c)

SpecHook == InitHook /\ [][NextHook]_vars

----------------------------------------------------------------------------
(* The two drawings of a biomarker: the MiniIndicator of the card          *)
(* (src/src/components/MiniIndicator.tsx) and the chart of the modal        *)
(* (src/src/components/CreatinineChartContent.tsx).  The graph domain is    *)
(* counted in fortieths, a quarter of the tenths that values are counted    *)
(* in, so that a quarter of a width and the middle of the domain are whole. *)

\* JavaScript a > b and a < b on numbers
Gt(a, b) == IsNum(a) /\ IsNum(b) /\ a.v > b.v
Lt(a, b) == IsNum(a) /\ IsNum(b) /\ a.v < b.v

\* a number of tenths in fortieths
Fortieths(x) == IF IsNum(x) THEN Num(4 * x.v) ELSE x

\* Math.min and Math.max of a non-empty collection: NaN if one member is NaN
MathMin(xs) ==
  IF \E x \in xs : ~IsNum(x) THEN NaN
  ELSE CHOOSE x \in xs : \A y \in xs : x.v <= y.v
MathMax(xs) ==
  IF \E x \in xs : ~IsNum(x) THEN NaN
  ELSE CHOOSE x \in xs : \A y \in xs : x.v >= y.v

\* a ?? b
Coalesce(a, b) == IF IsNull(a) THEN b ELSE a

\* ranges.find(r => r.color === color): the index of the first such band, 0
\* if there is none
FindColor(ranges, color) ==
  LET found == {i \in 1..Len(ranges) : ranges[i].color = color}
  IN IF found = {} THEN 0 ELSE CHOOSE i \in found : \A j \in found : i <= j

\* ranges.find(r => r.color === 'green' && r.label === 'Optimal')
FindOptimal(ranges) ==
  LET found == {i \in 1..Len(ranges) :
                  ranges[i].color = "green" /\ ranges[i].label = "Optimal"}
  IN IF found = {} THEN 0 ELSE CHOOSE i \in found : \A j \in found : i <= j

\* the bounds of the bands that are not null, and how many there are
AllBoundaries(ranges) ==
  {ranges[i].min : i \in {j \in 1..Len(ranges) : ~IsNull(ranges[j].min)}}
    \cup {ranges[i].max : i \in {j \in 1..Len(ranges) : ~IsNull(ranges[j].max)}}
BoundaryCount(ranges) ==
  Cardinality({j \in 1..Len(ranges) : ~IsNull(ranges[j].min)})
    + Cardinality({j \in 1..Len(ranges) : ~IsNull(ranges[j].max)})

\* the domain GET sets for Creatinine: 0.1 to 5.0
CreatinineGraphMin == 4
CreatinineGraphMax == 200

\* deriveGraphDomain, in fortieths
deriveGraphDomain(currentValue, ranges, creatinine) ==
  IF creatinine
  THEN [graphMin |-> Num(CreatinineGraphMin), graphMax |-> Num(CreatinineGraphMax)]
  ELSE IF Len(ranges) > 1 /\ BoundaryCount(ranges) >= 2
  THEN [graphMin |-> Fortieths(MathMin(AllBoundaries(ranges))),
        graphMax |-> Fortieths(MathMax(AllBoundaries(ranges)))]
  ELSE IF Len(ranges) = 1
  THEN LET onlyRange == ranges[1]
           low == Coalesce(onlyRange.min, Coalesce(onlyRange.max, currentValue))
           high == Coalesce(onlyRange.max, Coalesce(onlyRange.min, currentValue))
           width == high.v - low.v
           magnitude == IF high.v < 0 THEN 0 - high.v ELSE high.v
           padding == IF width # 0 THEN width
                      ELSE IF magnitude > 40 THEN magnitude ELSE 40
       IN IF ~IsNum(low) \/ ~IsNum(high)
          THEN [graphMin |-> NaN, graphMax |-> NaN]
          ELSE [graphMin |-> Num(4 * low.v - padding),
                graphMax |-> Num(4 * high.v + padding)]
  ELSE IF ~IsNum(currentValue) THEN [graphMin |-> NaN, graphMax |-> NaN]
  ELSE [graphMin |-> Num(4 * currentValue.v - 40),
        graphMax |-> Num(4 * currentValue.v + 40)]

\* the bound of a found band as an edge candidate: none for a band that is
\* missing or open on that side (the -Infinity and Infinity defaults)
EdgeMax(ranges, i) ==
  IF i = 0 \/ IsNull(ranges[i].max) THEN {} ELSE {Fortieths(ranges[i].max)}
EdgeMin(ranges, i) ==
  IF i = 0 \/ IsNull(ranges[i].min) THEN {} ELSE {Fortieths(ranges[i].min)}

\* getStatusZone of the MiniIndicator
getStatusZone(v, ranges, graphMin, graphMax) ==
  LET o == FindColor(ranges, "green")
      n == FindColor(ranges, "orange")
      upperEdge == MathMax({graphMax} \cup EdgeMax(ranges, o) \cup EdgeMax(ranges, n))
      lowerEdge == MathMin({graphMin} \cup EdgeMin(ranges, o) \cup EdgeMin(ranges, n))
  IN IF /\ o # 0
        /\ (IsNull(ranges[o].min) \/ Geq(v, ranges[o].min))
        /\ (IsNull(ranges[o].max) \/ Leq(v, ranges[o].max))
     THEN "optimal"
     ELSE IF /\ n # 0
             /\ ~IsNull(ranges[n].min) /\ ~IsNull(ranges[n].max)
             /\ Geq(v, ranges[n].min) /\ Leq(v, ranges[n].max)
     THEN "in-range"
     ELSE IF Gt(Fortieths(v), upperEdge) THEN "out-high"
     ELSE IF Lt(Fortieths(v), lowerEdge) THEN "out-low"
     ELSE IF /\ IsNum(v) /\ IsNum(graphMin) /\ IsNum(graphMax)
             /\ 2 * 4 * v.v >= graphMin.v + graphMax.v
     THEN "optimal"
     ELSE "out-low"

\* getCategory of the modal chart
getCategory(v, ranges) ==
  LET o == FindColor(ranges, "green")
      n == FindColor(ranges, "orange")
  IN IF /\ o # 0
        /\ ~IsNull(ranges[o].min) /\ ~IsNull(ranges[o].max)
        /\ Geq(v, ranges[o].min) /\ Lt(v, ranges[o].max)
     THEN "optimal"
     ELSE IF /\ n # 0
             /\ ~IsNull(ranges[n].min) /\ ~IsNull(ranges[n].max)
             /\ Geq(v, ranges[n].min) /\ Leq(v, ranges[n].max)
     THEN "in-range"
     ELSE IF o # 0 /\ ~IsNull(ranges[o].max) /\ Geq(v, ranges[o].max) THEN "out-high"
     ELSE IF n # 0 /\ ~IsNull(ranges[n].max) /\ Gt(v, ranges[n].max) THEN "out-high"
     ELSE "out-low"

\* getCreatinineCategory of the Creatinine chart
getCreatinineCategory(v, ranges) ==
  LET o == FindOptimal(ranges)
  IN IF o = 0 \/ IsNull(ranges[o].min) \/ IsNull(ranges[o].max) THEN "out-low"
     ELSE IF Geq(v, ranges[o].min) /\ Leq(v, ranges[o].max) THEN "optimal"
     ELSE IF Gt(v, ranges[o].max) THEN "out-high"
     ELSE "out-low"

\* the card and the modal draw the biomarker that GET returned; its name
\* holds "creatinine" or not
Render ==
  /\ stage = "classified"
  /\ display = NoDisplay
  /\ \E creatinine \in BOOLEAN :
       LET domain == deriveGraphDomain(value, bands, creatinine)
       IN display' =
            [creatinine |-> creatinine,
             zone |-> getStatusZone(value, bands, domain.graphMin, domain.graphMax),
             category |-> IF creatinine THEN getCreatinineCategory(value, bands)
                          ELSE getCategory(value, bands)]
  /\ UNCHANGED <<bandVars, apptVars, libVars, slotVars, modalVars, hookVars>>

NextDisplay == BuildBands \/ Classify \/ Render

SpecDisplay == InitBands /\ [][NextDisplay]_vars

----------------------------------------------------------------------------
(* Properties of the appointment frontend and of cancellation *)

\* C23: after any sequence of bookings and cancellations, a PATCH with
\* status 'cancelled' on an existing appointment whose status is 'booked'
\* succeeds: it answers 200 and the row's status becomes 'cancelled'.
C23_CancelBookedSucceeds ==
  [][\A id \in 1..nextId, hasNotes \in BOOLEAN :
       (/\ \E a \in appointments : a.id = id /\ a.status = "booked"
        /\ PATCH(id, TRUE, "cancelled", hasNotes))
       => /\ patchResult'.code = 200
          /\ \E b \in appointments' : b.id = id /\ b.status = "cancelled"]_vars

\* the call c of updateAppointment fails in this step
UpdateFails(c) == UpdateReply(c) /\ calls'[c].pc = "threw"

\* C24: whenever updateAppointment fails, by a reply that is not OK or by a
\* rejected request, the hook's list afterwards equals the list before the
\* call, the error field is set and the error is thrown.
C24_FailedUpdateRestoresList ==
  [][\A c \in 1..NCalls :
       UpdateFails(c) =>
         /\ hook'.appointments = calls[c].previousAppointments
         /\ hook'.error # "null"]_vars

\* the rows of a list
Rows(list) == {list[i] : i \in 1..Len(list)}

\* an operation started after the call c has completed, and no other call
\* is under way
OthersCompleted(c) ==
  /\ \A q \in 1..NCalls : q # c => calls[q].pc # "awaiting"
  /\ \E q \in 1..NCalls : q > c /\ calls[q].pc = "returned"

\* C25: when an updateAppointment call fails after other operations of the
\* hook completed during it, only its own optimistic change is reverted:
\* every row of another appointment that the list held is still in it.
C25_RollbackKeepsOtherChanges ==
  [][\A c \in 1..NCalls :
       (UpdateFails(c) /\ OthersCompleted(c)) =>
         \A row \in Rows(hook.appointments) :
           row.id # calls[c].id => row \in Rows(hook'.appointments)]_vars

\* a zone of the card or a category of the chart shows the status
Shows(drawn, st) ==
  \/ drawn = "optimal" /\ st = "optimal"
  \/ drawn = "in-range" /\ st = "in-range"
  \/ drawn \in {"out-high", "out-low"} /\ st = "out-of-range"

\* C26: for every biomarker GET /api/biomarkers returns, the zone of the
\* MiniIndicator and the category of the modal chart (the Creatinine chart
\* for Creatinine) show the status that calculateStatusFromBands computed,
\* for every value, the bounds of the bands included.
C26_DisplayShowsStatus ==
  (display # NoDisplay /\ IsNum(value)) =>
    /\ Shows(display.zone, status)
    /\ Shows(display.category, status)

=============================================================================
